---- MODULE Spec2Model ----
(***************************************************************************)
(* mesona/proxy.py: one Connection of the TLS relay.                       *)
(*                                                                         *)
(* MITMHandler.setup establishes the near Endpoint (self.session, facing   *)
(* the client) and the far Endpoint (self.remote, facing the destination), *)
(* then starts ForwardingThread (far -> near) and runs handle() inline     *)
(* (near -> far).  Every call on an Endpoint is one step; its outcome      *)
(* (data, end of stream, GNUTLSError) is chosen by the environment.        *)
(* Connections share nothing but the read-only configuration, so one       *)
(* Connection is modelled.                                                 *)
(***************************************************************************)
EXTENDS Integers, Sequences, FiniteSets, TLC

\* Bounds of the model.
MaxChunks == 1      \* chunks one flow reads before its source ends or fails
MaxLen == 1         \* longest chunk recv returns (buffer_size)
MaxPad == 2         \* largest magnitude of a configured padding bound
PadMaxLen == 9      \* longest chunk handed to send_range_safe on its own
PadMin == 5         \* padding bounds handed to send_range_safe: -PadMin ..
PadMax == 10        \* .. PadMax
MaxRelays == 4      \* most relays in the settings of the process
RelayChunks == 2    \* chunks one flow reads when followed further
RelayLen == 2       \* longest chunk then

VARIABLES
    config,     \* the relay's settings (MITMServer.config), read-only
    pc,         \* flow -> position: "handle" is the handler thread (setup, then
                \* handle), "run" is ForwardingThread.run
    created,    \* Endpoint -> has the session object been constructed
    closed,     \* Endpoint -> has close() been called on it
    log,        \* flow -> the calls it has issued, in order: <<endpoint, op>>
    data,       \* flow -> length of the chunk read and not yet written (0: none)
    rd,         \* flow -> lengths of the chunks the reader yielded, in order
    wr,         \* flow -> the writes handed to the destination, in order
    outcome,    \* flow -> how its forwarding loop ended
    failure,    \* flow -> the call of its loop that raised GNUTLSError
                \* ("none", "read" or "write")
    swallowed,  \* flow -> did its latest call raise inside try/except-pass
    failedAt,   \* the step of setup that raised ("" while none has)
    pad,        \* one call of send_range_safe: its arguments, the range it
                \* hands to send_range, the length that goes on the wire
    main        \* the __main__ block: settings, loop index, servers, exit

vars == <<config, pc, created, closed, log, data, rd, wr, outcome, failure,
          swallowed, failedAt, pad, main>>

\* The two flows: handle() runs inline on the handler thread, run() on its own.
Flows == {"handle", "run"}
\* self.session is the near Endpoint, self.remote the far one.
Endpoints == {"session", "remote"}

\* ForwardingThread(self.remote, self.session, ...): src=remote, dst=session;
\* handle() reads self.session and writes self.remote.
Src(f) == IF f = "handle" THEN "session" ELSE "remote"
Dst(f) == IF f = "handle" THEN "remote" ELSE "session"

Max(a, b) == IF a >= b THEN a ELSE b

PaddingRanges == {<<-MaxPad, 1>>, <<1, MaxPad>>}

Configs ==
    [verify_client_identity : BOOLEAN,
     verify_server_identity : BOOLEAN,
     use_length_hiding_with_client : BOOLEAN,
     use_length_hiding_with_server : BOOLEAN,
     padding_range_with_client : PaddingRanges,
     padding_range_with_server : PaddingRanges]

\* One Connection, freshly accepted, under one of the configurations cfgs.
Accepted(cfgs) ==
    /\ config \in cfgs
    /\ pc = [handle |-> "handshake_with_client", run |-> "not_started"]
    /\ created = [e \in Endpoints |-> FALSE]
    /\ closed = [e \in Endpoints |-> FALSE]
    /\ log = [f \in Flows |-> <<>>]
    /\ data = [f \in Flows |-> 0]
    /\ rd = [f \in Flows |-> <<>>]
    /\ wr = [f \in Flows |-> <<>>]
    /\ outcome = [f \in Flows |-> "none"]
    /\ failure = [f \in Flows |-> "none"]
    /\ swallowed = [f \in Flows |-> FALSE]
    /\ failedAt = ""

Init ==
    /\ Accepted(Configs)
    /\ pad = [st |-> "idle"]
    /\ main = [st |-> "idle"]

Goto(f, p) == pc' = [pc EXCEPT ![f] = p]

Call(f, e, op) == log' = [log EXCEPT ![f] = Append(@, <<e, op>>)]

----------------------------------------------------------------------------
\* MITMHandler.setup: the position after each step, by the configuration.

AfterHandshakeWithClient_DialsFirst == "build_server_connection"

AfterHandshakeWithClient ==
    IF config.verify_client_identity THEN "verify_client_identity"
    ELSE IF config.use_length_hiding_with_client THEN "check_client_length_hiding"
    ELSE "build_server_connection"

AfterVerifyClientIdentity ==
    IF config.use_length_hiding_with_client THEN "check_client_length_hiding"
    ELSE "build_server_connection"

AfterBuildServerConnection_StartsEarly == "start_forwarding_thread"

AfterBuildServerConnection ==
    IF config.verify_server_identity THEN "verify_server_identity"
    ELSE IF config.use_length_hiding_with_server THEN "check_server_length_hiding"
    ELSE "start_forwarding_thread"

AfterVerifyServerIdentity ==
    IF config.use_length_hiding_with_server THEN "check_server_length_hiding"
    ELSE "start_forwarding_thread"

\* An exception leaves setup: nothing after the raising line runs, handle() is
\* never called, and setup has no try/finally that would close an Endpoint.
Abort(step) ==
    /\ Goto("handle", "setup_raised")
    /\ failedAt' = step

SetupRest ==
    UNCHANGED <<config, closed, data, rd, wr, outcome, failure, swallowed, pad, main>>

\* self.session = LengthHidingServerSession(...); self.session.handshake()
handshake_with_client ==
    /\ pc["handle"] = "handshake_with_client"
    /\ created' = [created EXCEPT !["session"] = TRUE]
    /\ Call("handle", "session", "handshake")
    /\ \E ok \in BOOLEAN :
        IF ok THEN Goto("handle", AfterHandshakeWithClient) /\ UNCHANGED failedAt
        ELSE Abort("handshake_with_client")
    /\ SetupRest

\* self.session.verify_peer(); credentials.check_certificate(...)
verify_client_identity ==
    /\ pc["handle"] = "verify_client_identity"
    /\ Call("handle", "session", "verify_peer")
    /\ \E ok \in BOOLEAN :
        IF ok THEN Goto("handle", AfterVerifyClientIdentity) /\ UNCHANGED failedAt
        ELSE Abort("verify_client_identity")
    /\ UNCHANGED created
    /\ SetupRest

\* if use_length_hiding_with_client and not session.can_use_length_hiding(): raise
check_client_length_hiding ==
    /\ pc["handle"] = "check_client_length_hiding"
    /\ Call("handle", "session", "can_use_length_hiding")
    /\ \E can \in BOOLEAN :
        IF can THEN Goto("handle", "build_server_connection") /\ UNCHANGED failedAt
        ELSE Abort("check_client_length_hiding")
    /\ UNCHANGED created
    /\ SetupRest

\* build_server_connection: socket, LengthHidingClientSession, connect, handshake.
\* The first failing call raises; the calls before it have been made.
build_server_connection ==
    /\ pc["handle"] = "build_server_connection"
    /\ \E r \in {"socket_failed", "connect_failed", "handshake_failed", "ok"} :
        /\ created' = [created EXCEPT !["remote"] = (r # "socket_failed")]
        /\ log' = [log EXCEPT !["handle"] =
                 @ \o (CASE r = "socket_failed" -> <<>>
                         [] r = "connect_failed" -> << <<"remote", "connect">> >>
                         [] OTHER -> << <<"remote", "connect">>,
                                        <<"remote", "handshake">> >>)]
        /\ IF r = "ok" THEN Goto("handle", AfterBuildServerConnection) /\ UNCHANGED failedAt
           ELSE Abort(r)
    /\ SetupRest

\* self.remote.verify_peer(); credentials.check_certificate(...)
verify_server_identity ==
    /\ pc["handle"] = "verify_server_identity"
    /\ Call("handle", "remote", "verify_peer")
    /\ \E ok \in BOOLEAN :
        IF ok THEN Goto("handle", AfterVerifyServerIdentity) /\ UNCHANGED failedAt
        ELSE Abort("verify_server_identity")
    /\ UNCHANGED created
    /\ SetupRest

\* if use_length_hiding_with_server and not remote.can_use_length_hiding(): raise
check_server_length_hiding ==
    /\ pc["handle"] = "check_server_length_hiding"
    /\ Call("handle", "remote", "can_use_length_hiding")
    /\ \E can \in BOOLEAN :
        IF can THEN Goto("handle", "start_forwarding_thread") /\ UNCHANGED failedAt
        ELSE Abort("check_server_length_hiding")
    /\ UNCHANGED created
    /\ SetupRest

\* ForwardingThread(self.remote, self.session, self.server).start(); setup then
\* returns and BaseRequestHandler calls handle().
start_forwarding_thread ==
    /\ pc["handle"] = "start_forwarding_thread"
    /\ pc["run"] = "not_started"
    /\ pc' = [handle |-> "recv", run |-> "recv"]
    /\ UNCHANGED <<config, created, closed, log, data, rd, wr, outcome, failure,
                   swallowed, failedAt, pad, main>>

----------------------------------------------------------------------------
\* The forwarding loop of either flow: connection_reader feeding
\* forward_connection or forward_connection_with_padding.

UsePadding_OfSource(f) ==
    IF f = "handle" THEN config.use_length_hiding_with_client
    ELSE config.use_length_hiding_with_server

\* handle(): use_length_hiding_with_server / padding_range_with_server;
\* run(): use_length_hiding_with_client / padding_range_with_client.
UsePadding(f) ==
    IF f = "handle" THEN config.use_length_hiding_with_server
    ELSE config.use_length_hiding_with_client

PaddingRange(f) ==
    IF f = "handle" THEN config.padding_range_with_server
    ELSE config.padding_range_with_client

send_range_safe_NoClamp(len, range_low, range_high) ==
    <<range_low, range_high>>

send_range_safe_ClampsHigh(len, range_low, range_high) ==
    <<Max(range_low, 1 - len), Max(range_high, 1 - len)>>

\* range_low = max(range_low, 1 - len(data)); range_high = range_high
send_range_safe(len, range_low, range_high) ==
    <<Max(range_low, 1 - len), range_high>>

HandleTeardown_SkipsClose(o) ==
    IF o = "WriterError" THEN "say_bye_to_origin" ELSE "say_bye_to_remote"

HandleTeardown_NoByeOnEOF(o) ==
    IF o = "ReaderError" THEN "say_bye_to_remote" ELSE "close_remote"

\* The first teardown step of handle(), by the way the loop ended:
\* except ReaderError / else: say_bye_to_remote; except WriterError: close_remote.
HandleTeardown(o) ==
    IF o = "WriterError" THEN "close_remote" ELSE "say_bye_to_remote"

RunTeardown_ByeOnReaderError(o) ==
    IF o = "WriterError" THEN "print_exc" ELSE "say_bye_to_dst"

RunTeardown_NoByeOnEOF(o) ==
    IF o = "EOF" THEN "close_dst" ELSE "print_exc"

\* run(): except Exception: print_exc(); else: say_bye_to_dst().
RunTeardown(o) ==
    IF o = "EOF" THEN "say_bye_to_dst" ELSE "print_exc"

Teardown(f, o) == IF f = "handle" THEN HandleTeardown(o) ELSE RunTeardown(o)

ReaderRaises_AsWriterError == "WriterError"

\* except GNUTLSError as e: raise ReaderError(e.message)
ReaderRaises == "ReaderError"

\* except GNUTLSError as e: raise WriterError(e.message)
WriterRaises == "WriterError"

\* The loop of flow f ends with o: control passes to the flow's try statement.
EndLoop(f, o) ==
    /\ outcome' = [outcome EXCEPT ![f] = o]
    /\ Goto(f, Teardown(f, o))

\* data = src.recv(buffer_size): GNUTLSError is raised as ReaderError, a
\* zero-length read returns (the for loop ends), anything else is yielded.
\* recv on an Endpoint the other flow has closed fails.
connection_reader_upto(f, chunks, maxLen) ==
    /\ pc[f] = "recv"
    /\ Call(f, Src(f), "recv")
    /\ \/ /\ EndLoop(f, ReaderRaises)
          /\ failure' = [failure EXCEPT ![f] = "read"]
          /\ UNCHANGED <<data, rd>>
       \/ /\ ~closed[Src(f)]
          /\ EndLoop(f, "EOF")
          /\ UNCHANGED <<data, rd, failure>>
       \/ /\ ~closed[Src(f)]
          /\ Len(rd[f]) < chunks
          /\ \E len \in 1..maxLen :
                /\ data' = [data EXCEPT ![f] = len]
                /\ rd' = [rd EXCEPT ![f] = Append(@, len)]
          /\ Goto(f, "send")
          /\ UNCHANGED <<outcome, failure>>
    /\ UNCHANGED <<config, created, closed, wr, swallowed, failedAt, pad, main>>

connection_reader(f) == connection_reader_upto(f, MaxChunks, MaxLen)

\* The write of the chunk in flight: GNUTLSError is raised as WriterError,
\* otherwise the loop asks the reader for the next chunk.
Write(f, op, w) ==
    /\ Call(f, Dst(f), op)
    /\ data' = [data EXCEPT ![f] = 0]
    /\ \/ /\ EndLoop(f, WriterRaises)
          /\ failure' = [failure EXCEPT ![f] = "write"]
          /\ UNCHANGED wr
       \/ /\ ~closed[Dst(f)]
          /\ wr' = [wr EXCEPT ![f] = Append(@, w)]
          /\ Goto(f, "recv")
          /\ UNCHANGED <<outcome, failure>>
    /\ UNCHANGED <<config, created, closed, rd, swallowed, failedAt, pad, main>>

forward_connection_Alters(f) ==
    /\ pc[f] = "send"
    /\ ~UsePadding(f)
    /\ Write(f, "send", [len |-> data[f] + 1, padded |-> FALSE, range |-> <<0, 0>>])

\* dst.send(data)
forward_connection(f) ==
    /\ pc[f] = "send"
    /\ ~UsePadding(f)
    /\ Write(f, "send", [len |-> data[f], padded |-> FALSE, range |-> <<0, 0>>])

\* send_range_safe(dst, data, range_low, range_high):
\* dst.send_range(data, (range_low, range_high))
forward_connection_with_padding(f) ==
    /\ pc[f] = "send"
    /\ UsePadding(f)
    /\ Write(f, "send_range",
             [len |-> data[f], padded |-> TRUE,
              range |-> send_range_safe(data[f], PaddingRange(f)[1],
                                        PaddingRange(f)[2])])

----------------------------------------------------------------------------
\* Teardown of handle().  bye() and shutdown() sit in try/except-pass.
\* close() is called bare, after the except clause: it closes the socket
\* object and is taken, as the code takes it, to return.

TeardownRest ==
    UNCHANGED <<config, created, data, rd, wr, outcome, failure, failedAt, pad, main>>

ExceptPass_Propagates(next) == "raised"

\* except: pass -- control goes on at the statement after the try.
ExceptPass(next) == next

\* try: e.op() except: pass, followed by the statement at position next.
\* The call raises or returns; on an Endpoint already closed it raises.
TryCall(f, e, op, next) ==
    /\ Call(f, e, op)
    /\ \E raises \in (IF closed[e] THEN {TRUE} ELSE BOOLEAN) :
          /\ swallowed' = [swallowed EXCEPT ![f] = raises]
          /\ Goto(f, IF raises THEN ExceptPass(next) ELSE next)

AfterCloseRemote_ByeAlways(o) == "say_bye_to_origin"

\* After close_remote(): except ReaderError: raise; the other two branches go
\* on with say_bye_to_origin().
AfterCloseRemote(o) ==
    IF o = "ReaderError" THEN "raised" ELSE "say_bye_to_origin"

AfterSayByeToOrigin_Swallows(o) == "returned"

\* After say_bye_to_origin(): except WriterError: raise; else: handle returns.
AfterSayByeToOrigin(o) ==
    IF o = "WriterError" THEN "raised" ELSE "returned"

\* try: self.remote.bye() except: pass
say_bye_to_remote ==
    /\ pc["handle"] = "say_bye_to_remote"
    /\ TryCall("handle", "remote", "bye", "close_remote")
    /\ UNCHANGED closed
    /\ TeardownRest

\* close_remote, first half: try: self.remote.shutdown() except: pass
close_remote_shutdown ==
    /\ pc["handle"] = "close_remote"
    /\ TryCall("handle", "remote", "shutdown", "close_remote_close")
    /\ UNCHANGED closed
    /\ TeardownRest

\* close_remote, second half: self.remote.close()
close_remote_close ==
    /\ pc["handle"] = "close_remote_close"
    /\ Call("handle", "remote", "close")
    /\ swallowed' = [swallowed EXCEPT !["handle"] = FALSE]
    /\ closed' = [closed EXCEPT !["remote"] = TRUE]
    /\ Goto("handle", AfterCloseRemote(outcome["handle"]))
    /\ TeardownRest

\* try: self.session.bye() except: pass
say_bye_to_origin ==
    /\ pc["handle"] = "say_bye_to_origin"
    /\ TryCall("handle", "session", "bye", AfterSayByeToOrigin(outcome["handle"]))
    /\ UNCHANGED closed
    /\ TeardownRest

\* MITMServer.handle_error: an exception that left setup() or handle() is
\* reported through print_exc().  The call is what the log records; whether
\* anything is printed depends on config.suppress_exceptions.
handle_error ==
    /\ pc["handle"] \in {"setup_raised", "raised"}
    /\ Call("handle", "server", "print_exc")
    /\ swallowed' = [swallowed EXCEPT !["handle"] = FALSE]
    /\ Goto("handle", "error_handled")
    /\ UNCHANGED closed
    /\ TeardownRest

----------------------------------------------------------------------------
\* Teardown of ForwardingThread.run().

\* except Exception: self.server.print_exc()
print_exc ==
    /\ pc["run"] = "print_exc"
    /\ Call("run", "server", "print_exc")
    /\ swallowed' = [swallowed EXCEPT !["run"] = FALSE]
    /\ Goto("run", "close_dst")
    /\ UNCHANGED closed
    /\ TeardownRest

\* try: self.dst.bye() except: pass
say_bye_to_dst ==
    /\ pc["run"] = "say_bye_to_dst"
    /\ TryCall("run", "session", "bye", "close_dst")
    /\ UNCHANGED closed
    /\ TeardownRest

\* close_dst, first half: try: self.dst.shutdown() except: pass
close_dst_shutdown ==
    /\ pc["run"] = "close_dst"
    /\ TryCall("run", "session", "shutdown", "close_dst_close")
    /\ UNCHANGED closed
    /\ TeardownRest

\* close_dst, second half: self.dst.close(); run() returns.
close_dst_close ==
    /\ pc["run"] = "close_dst_close"
    /\ Call("run", "session", "close")
    /\ swallowed' = [swallowed EXCEPT !["run"] = FALSE]
    /\ closed' = [closed EXCEPT !["session"] = TRUE]
    /\ Goto("run", "returned")
    /\ TeardownRest

----------------------------------------------------------------------------
Next ==
    \/ handshake_with_client
    \/ verify_client_identity
    \/ check_client_length_hiding
    \/ build_server_connection
    \/ verify_server_identity
    \/ check_server_length_hiding
    \/ start_forwarding_thread
    \/ \E f \in Flows : connection_reader(f)
    \/ \E f \in Flows : forward_connection(f)
    \/ \E f \in Flows : forward_connection_with_padding(f)
    \/ say_bye_to_remote
    \/ close_remote_shutdown
    \/ close_remote_close
    \/ say_bye_to_origin
    \/ handle_error
    \/ print_exc
    \/ say_bye_to_dst
    \/ close_dst_shutdown
    \/ close_dst_close

Spec == Init /\ [][Next]_vars

----------------------------------------------------------------------------
\* The same Connection followed through longer streams, with both identity
\* checks configured and two fixed, different padding ranges.

RelayConfigs ==
    {c \in Configs :
        /\ c.verify_client_identity /\ c.verify_server_identity
        /\ c.padding_range_with_client = <<-MaxPad, 1>>
        /\ c.padding_range_with_server = <<1, MaxPad>>}

InitRelay == Accepted(RelayConfigs) /\ pad = [st |-> "idle"] /\ main = [st |-> "idle"]

connection_reader_relay(f) == connection_reader_upto(f, RelayChunks, RelayLen)

NextRelay ==
    \/ handshake_with_client
    \/ verify_client_identity
    \/ check_client_length_hiding
    \/ build_server_connection
    \/ verify_server_identity
    \/ check_server_length_hiding
    \/ start_forwarding_thread
    \/ \E f \in Flows : connection_reader_relay(f)
    \/ \E f \in Flows : forward_connection(f)
    \/ \E f \in Flows : forward_connection_with_padding(f)
    \/ say_bye_to_remote
    \/ close_remote_shutdown
    \/ close_remote_close
    \/ say_bye_to_origin
    \/ handle_error
    \/ print_exc
    \/ say_bye_to_dst
    \/ close_dst_shutdown
    \/ close_dst_close

SpecRelay == InitRelay /\ [][NextRelay]_vars

----------------------------------------------------------------------------
\* The Connection under fair scheduling of its two threads.  A call that a
\* thread has made returns or raises, with one exception: recv on an
\* Endpoint that is still open may block for ever (the peer stays silent).
\* recv on an Endpoint the other flow has closed raises.

HandleSteps ==
    \/ closed[Src("handle")] /\ connection_reader("handle")
    \/ forward_connection("handle")
    \/ forward_connection_with_padding("handle")
    \/ say_bye_to_remote
    \/ close_remote_shutdown
    \/ close_remote_close
    \/ say_bye_to_origin
    \/ handle_error

RunSteps ==
    \/ closed[Src("run")] /\ connection_reader("run")
    \/ forward_connection("run")
    \/ forward_connection_with_padding("run")
    \/ print_exc
    \/ say_bye_to_dst
    \/ close_dst_shutdown
    \/ close_dst_close

SpecFair ==
    /\ InitRelay
    /\ [][Next]_vars
    /\ WF_vars(HandleSteps)
    /\ WF_vars(RunSteps)

----------------------------------------------------------------------------
\* send_range_safe on its own: one call with arguments drawn from the bounds.

\* The Connection of a specification that is about something else: freshly
\* accepted and never run.
QuietConfig == CHOOSE c \in Configs : TRUE

PadCalls ==
    {[st |-> "called", len |-> len, low |-> low, high |-> high] :
        len \in 0..PadMaxLen,
        low \in (0 - PadMin)..PadMax,
        high \in (0 - PadMin)..PadMax}

InitPad ==
    /\ Accepted({QuietConfig})
    /\ main = [st |-> "idle"]
    /\ pad \in {c \in PadCalls : c.low <= c.high}

\* send_range_safe(dst, data, range_low, range_high): the range is clamped
\* and handed to dst.send_range, which adds a number of bytes of its choice
\* within the range; handed a range that holds no number it raises.
send_range_safe_call ==
    /\ pad.st = "called"
    /\ LET range == send_range_safe(pad.len, pad.low, pad.high)
       IN  \/ /\ range[1] > range[2]
              /\ pad' = [st |-> "rejected", len |-> pad.len, low |-> pad.low,
                         high |-> pad.high, range |-> range, wire |-> 0]
           \/ \E p \in range[1]..range[2] :
                 pad' = [st |-> "sent", len |-> pad.len, low |-> pad.low,
                         high |-> pad.high, range |-> range, wire |-> pad.len + p]
    /\ UNCHANGED <<config, pc, created, closed, log, data, rd, wr, outcome,
                   failure, swallowed, failedAt, main>>

NextPad == send_range_safe_call

SpecPad == InitPad /\ [][NextPad]_vars

----------------------------------------------------------------------------
\* The __main__ block: one listener per item of settings.

\* settings, by whether MITMServer(config) can be constructed for each item.
Settings == UNION {[1..n -> BOOLEAN] : n \in 0..MaxRelays}

InitMain ==
    /\ Accepted({QuietConfig})
    /\ pad = [st |-> "idle"]
    /\ main \in {[st |-> "loop", settings |-> c, i |-> 1, servers |-> <<>>,
                  status |-> -1] : c \in Settings}

MainRest ==
    UNCHANGED <<config, pc, created, closed, log, data, rd, wr, outcome,
                failure, swallowed, failedAt, pad>>

AfterConstructFailure_Breaks(i, n) == n + 1

\* except Exception: print ...; continue -- the loop goes on with the next item.
AfterConstructFailure(i, n) == i + 1

\* One pass of the for loop: try: server = MITMServer(config); on success the
\* serve_forever thread is started and the server appended to servers.
main_loop ==
    /\ main.st = "loop"
    /\ main.i <= Len(main.settings)
    /\ IF main.settings[main.i]
       THEN main' = [main EXCEPT !.servers = Append(@, main.i), !.i = @ + 1]
       ELSE main' = [main EXCEPT
                        !.i = AfterConstructFailure(@, Len(main.settings))]
    /\ MainRest

\* if not servers: sys.exit(1); otherwise the SIGINT handler is installed and
\* the main thread sleeps.
main_after_loop ==
    /\ main.st = "loop"
    /\ main.i > Len(main.settings)
    /\ IF main.servers = <<>>
       THEN main' = [main EXCEPT !.st = "exited", !.status = 1]
       ELSE main' = [main EXCEPT !.st = "serving"]
    /\ MainRest

\* sigint_received: server.shutdown() for every server, then sys.exit(0).
sigint_received ==
    /\ main.st = "serving"
    /\ main' = [main EXCEPT !.st = "exited", !.status = 0]
    /\ MainRest

NextMain ==
    \/ main_loop
    \/ main_after_loop
    \/ sigint_received

SpecMain == InitMain /\ [][NextMain]_vars

----------------------------------------------------------------------------
\* Reading the logs.

\* How many times flow f has called op on Endpoint e.
Count(f, e, op) == Len(SelectSeq(log[f], LAMBDA x : x = <<e, op>>))

Did(f, e, op) == Count(f, e, op) > 0

\* The calls that put bytes on an Endpoint's send path.
SendOps == {"send", "send_range", "bye"}

\* The calls of the forwarding loop.
LoopOps == {"recv", "send", "send_range"}

\* Index of the last call of the forwarding loop among the first i calls of
\* s (0: none).
RECURSIVE LastLoopBefore(_, _)
LastLoopBefore(s, i) ==
    IF i = 0 THEN 0
    ELSE IF s[i][2] \in LoopOps THEN i
    ELSE LastLoopBefore(s, i - 1)

\* Index of the last call of f's forwarding loop (0: none yet).
LastLoopIndex(f) == LastLoopBefore(log[f], Len(log[f]))

\* The last call of f's forwarding loop: the one that ended it, once it ended.
LastLoopCall(f) ==
    IF LastLoopIndex(f) = 0 THEN <<"", "">> ELSE log[f][LastLoopIndex(f)]

\* What f has called since its forwarding loop ended.
TeardownLog(f) == SubSeq(log[f], LastLoopIndex(f) + 1, Len(log[f]))

IsPrefix(s, t) == Len(s) <= Len(t) /\ s = SubSeq(t, 1, Len(s))

\* setup() raised: the Connection is aborted.
Aborted == failedAt # ""

\* handle() has been entered / has been left.
HandleStarted ==
    /\ ~Aborted
    /\ pc["handle"] \in {"recv", "send", "say_bye_to_remote", "close_remote",
                         "close_remote_close", "say_bye_to_origin",
                         "returned", "raised", "error_handled"}
HandleEnded ==
    /\ ~Aborted
    /\ pc["handle"] \in {"returned", "raised", "error_handled"}

\* ForwardingThread.run has been entered / has returned.
RunStarted == pc["run"] # "not_started"
RunEnded == pc["run"] = "returned"

NearSteps == {"handshake_with_client", "verify_client_identity",
              "check_client_length_hiding"}
FarSteps == {"handshake_failed", "verify_server_identity",
             "check_server_length_hiding"}

\* The near Endpoint has passed its handshake and each configured check.
NearEstablished ==
    /\ Did("handle", "session", "handshake")
    /\ config.verify_client_identity => Did("handle", "session", "verify_peer")
    /\ config.use_length_hiding_with_client
          => Did("handle", "session", "can_use_length_hiding")
    /\ failedAt \notin NearSteps

\* Both Endpoints have passed the whole establishment sequence.
Established ==
    /\ NearEstablished
    /\ created["remote"]
    /\ Did("handle", "remote", "connect")
    /\ Did("handle", "remote", "handshake")
    /\ config.verify_server_identity => Did("handle", "remote", "verify_peer")
    /\ config.use_length_hiding_with_server
          => Did("handle", "remote", "can_use_length_hiding")
    /\ ~Aborted

----------------------------------------------------------------------------
\* C1. Ownership: no flow ever closes the Endpoint it reads, no Endpoint is
\* closed twice, and once both flows of an established Connection have ended
\* the far Endpoint has been closed exactly once, by handle(), and the near
\* Endpoint exactly once, by ForwardingThread.run(), whatever way each flow's
\* loop ended.
C1_Ownership ==
    /\ \A f \in Flows :
          /\ Count(f, Src(f), "close") = 0
          /\ Count(f, Dst(f), "close") <= 1
    /\ (HandleEnded /\ RunEnded) =>
          \A f \in Flows : Count(f, Dst(f), "close") = 1

\* Both flows have ended, one on a write failure and one on a read failure.
C1_Witness ==
    /\ HandleEnded /\ RunEnded
    /\ outcome["handle"] = "WriterError"
    /\ outcome["run"] = "ReaderError"

\* C2. At the end of an aborted setup() whose failure lies at or after the far
\* handshake, both the near and the far Endpoint have been closed.
C2_AbortReleasesEndpoints ==
    (failedAt \in FarSteps /\ pc["handle"] = "error_handled") =>
        (closed["session"] /\ closed["remote"])

\* C3. Establishment ordering: the far Endpoint exists, or has had any call
\* made on it, only if the near Endpoint has passed its handshake and each
\* configured near-side check; when a near-side step fails, no far Endpoint
\* is created.
C3_EstablishmentOrdering ==
    /\ (created["remote"] \/ \E i \in 1..Len(log["handle"]) :
                                 log["handle"][i][1] = "remote")
          => NearEstablished
    /\ failedAt \in NearSteps => ~created["remote"]

\* The far Endpoint exists under a configuration with both near-side checks.
C3_Witness ==
    /\ created["remote"]
    /\ config.verify_client_identity
    /\ config.use_length_hiding_with_client

\* C4. The two flows start together, one per direction, and only on an
\* established Connection: a flow that has started or has read anything
\* implies that both Endpoints passed the whole establishment sequence; each
\* flow reads only its own source; after an abort no flow has started.
C4_FlowsStartWhenEstablished ==
    /\ HandleStarted <=> RunStarted
    /\ RunStarted => Established
    /\ \A f \in Flows :
          /\ (pc[f] \in {"recv", "send"} \/ Did(f, Src(f), "recv")) => Established
          /\ ~Did(f, Dst(f), "recv")
    /\ Aborted => /\ ~HandleStarted /\ ~RunStarted
                  /\ \A f \in Flows, e \in Endpoints : ~Did(f, e, "recv")

\* Both flows have read, with both far-side checks configured.
C4_Witness ==
    /\ Did("handle", "session", "recv")
    /\ Did("run", "remote", "recv")
    /\ config.verify_server_identity
    /\ config.use_length_hiding_with_server

\* C5. Single writer: every call that sends on an Endpoint (send, send_range,
\* bye) is made by the flow that writes into that Endpoint.
C5_SingleWriter ==
    \A f \in Flows : \A i \in 1..Len(log[f]) :
        log[f][i][2] \in SendOps => log[f][i][1] = Dst(f)

\* C6 as stated. Destination reset: once ForwardingThread.run has ended on a
\* failed read of the far Endpoint and handle() has ended too, a close-notify
\* (bye) has been attempted on the near Endpoint and it is closed.
C6_DestinationResetSendsBye ==
    (RunEnded /\ outcome["run"] = "ReaderError" /\ HandleEnded) =>
        /\ \E f \in Flows : Did(f, "session", "bye")
        /\ closed["session"]

\* C6 as amended. A loop of ForwardingThread.run that ended in ReaderError
\* ended on a recv of the far Endpoint; run() then reports it through
\* print_exc and shuts down and closes the near Endpoint, and never sends it
\* a close-notify.
C6_DestinationReset ==
    outcome["run"] = "ReaderError" =>
        /\ LastLoopCall("run") = <<"remote", "recv">>
        /\ ~Did("run", "session", "bye")
        /\ IsPrefix(TeardownLog("run"),
                    << <<"server", "print_exc">>, <<"session", "shutdown">>,
                       <<"session", "close">> >>)
        /\ RunEnded => /\ Len(TeardownLog("run")) = 3
                       /\ closed["session"]

\* run() has returned after a failed read of the far Endpoint.
C6_Witness == RunEnded /\ outcome["run"] = "ReaderError"

\* C7. handle(), clean end of stream: after the zero-length read of the near
\* Endpoint it calls bye, shutdown, close on the far Endpoint and then bye on
\* the near Endpoint, in that order and nothing else; it never closes the
\* near Endpoint, and it returns instead of raising.
C7_InlineCleanEOF ==
    outcome["handle"] = "EOF" =>
        /\ LastLoopCall("handle") = <<"session", "recv">>
        /\ IsPrefix(TeardownLog("handle"),
                    << <<"remote", "bye">>, <<"remote", "shutdown">>,
                       <<"remote", "close">>, <<"session", "bye">> >>)
        /\ pc["handle"] \notin {"raised", "error_handled"}
        /\ pc["handle"] = "returned" <=> Len(TeardownLog("handle")) = 4

\* handle() has returned after a clean end of stream.
C7_Witness == outcome["handle"] = "EOF" /\ pc["handle"] = "returned"

\* C8. handle(), WriterError: the loop ended on a write to the far Endpoint;
\* handle() then calls shutdown and close on the far Endpoint, then bye on the
\* near Endpoint, and nothing else; no bye is ever sent to the far Endpoint;
\* the error leaves handle() and reaches handle_error.
C8_InlineWriterError ==
    outcome["handle"] = "WriterError" =>
        /\ LastLoopCall("handle") \in {<<"remote", "send">>, <<"remote", "send_range">>}
        /\ \A f \in Flows : ~Did(f, "remote", "bye")
        /\ IsPrefix(TeardownLog("handle"),
                    << <<"remote", "shutdown">>, <<"remote", "close">>,
                       <<"session", "bye">>, <<"server", "print_exc">> >>)
        /\ pc["handle"] # "returned"
        /\ pc["handle"] = "raised" <=> Len(TeardownLog("handle")) = 3
        /\ pc["handle"] = "error_handled" <=> Len(TeardownLog("handle")) = 4

\* The WriterError has left handle() and been reported.
C8_Witness == outcome["handle"] = "WriterError" /\ pc["handle"] = "error_handled"

\* C9. handle(), ReaderError: the loop ended on a recv of the near Endpoint;
\* handle() then calls bye, shutdown, close on the far Endpoint and makes no
\* call on the near Endpoint; the error leaves handle() and reaches
\* handle_error.
C9_InlineReaderError ==
    outcome["handle"] = "ReaderError" =>
        /\ LastLoopCall("handle") = <<"session", "recv">>
        /\ IsPrefix(TeardownLog("handle"),
                    << <<"remote", "bye">>, <<"remote", "shutdown">>,
                       <<"remote", "close">>, <<"server", "print_exc">> >>)
        /\ pc["handle"] # "returned"
        /\ pc["handle"] = "raised" <=> Len(TeardownLog("handle")) = 3
        /\ pc["handle"] = "error_handled" <=> Len(TeardownLog("handle")) = 4

\* The ReaderError has left handle() and been reported.
C9_Witness == outcome["handle"] = "ReaderError" /\ pc["handle"] = "error_handled"

\* C10. ForwardingThread.run teardown: after a clean end of stream it calls
\* bye, shutdown, close on the near Endpoint; after a ReaderError or a
\* WriterError it calls print_exc, then shutdown and close on the near
\* Endpoint, without bye; it has returned exactly when the three calls are
\* made; on the far Endpoint it never calls anything but recv.
C10_DedicatedFlowTeardown ==
    /\ \A i \in 1..Len(log["run"]) :
          log["run"][i][1] = "remote" => log["run"][i][2] = "recv"
    /\ outcome["run"] = "EOF" =>
          IsPrefix(TeardownLog("run"),
                   << <<"session", "bye">>, <<"session", "shutdown">>,
                      <<"session", "close">> >>)
    /\ outcome["run"] \in {"ReaderError", "WriterError"} =>
          IsPrefix(TeardownLog("run"),
                   << <<"server", "print_exc">>, <<"session", "shutdown">>,
                      <<"session", "close">> >>)
    /\ outcome["run"] # "none" => (RunEnded <=> Len(TeardownLog("run")) = 3)

\* run() has returned after a failed write to the near Endpoint.
C10_Witness == RunEnded /\ outcome["run"] = "WriterError"

----------------------------------------------------------------------------
\* The last call flow f has issued.
LastCall(f) == IF log[f] = <<>> THEN <<"", "">> ELSE log[f][Len(log[f])]

\* Where flow f stands once the call c of its teardown is over and the
\* statement after it has control.
PositionAfter(f, c) ==
    CASE f = "handle" /\ c = <<"remote", "bye">> -> {"close_remote"}
      [] f = "handle" /\ c = <<"remote", "shutdown">> -> {"close_remote_close"}
      [] f = "handle" /\ c = <<"session", "bye">> ->
            IF outcome[f] = "EOF" THEN {"returned"} ELSE {"raised"}
      [] f = "run" /\ c = <<"session", "bye">> -> {"close_dst"}
      [] f = "run" /\ c = <<"session", "shutdown">> -> {"close_dst_close"}
      [] OTHER -> {}

C12_PaddingFloor ==
    pad.st \in {"sent", "rejected"} =>
        /\ pad.range[1] >= pad.low
        /\ pad.range[1] >= 1 - pad.len
        /\ pad.range[1] \in {pad.low, 1 - pad.len}
        /\ pad.len + pad.range[1] >= 1
        /\ (pad.len = 0 /\ pad.low = -5) => pad.range[1] = 1
        /\ pad.st = "sent" => pad.wire >= 1

\* An empty chunk with low = -5 has gone out as one byte.
C12_Witness ==
    /\ pad.st = "sent"
    /\ pad.len = 0 /\ pad.low = -5
    /\ pad.range[1] = 1 /\ pad.wire = 1

\* C13. Padding range: the range handed to send_range is (max(low, 1 - L),
\* high), the upper bound unchanged, and the length on the wire lies between
\* L + max(low, 1 - L) and L + high (between 14 and 19 for a 9-byte chunk
\* with range (5, 10)).
C13_PaddingRange ==
    pad.st \in {"sent", "rejected"} =>
        /\ pad.range[2] = pad.high
        /\ pad.range[1] = (IF pad.low >= 1 - pad.len THEN pad.low ELSE 1 - pad.len)
        /\ pad.st = "sent" =>
              /\ pad.wire >= pad.len + pad.range[1]
              /\ pad.wire <= pad.len + pad.high
              /\ (pad.len = 9 /\ pad.low = 5 /\ pad.high = 10)
                    => pad.wire \in 14..19

\* The 9-byte chunk with range (5, 10) has gone out with 19 bytes.
C13_Witness ==
    /\ pad.st = "sent"
    /\ pad.len = 9 /\ pad.low = 5 /\ pad.high = 10
    /\ pad.wire = 19

\* C16. Listener independence: at every point of the loop the servers started
\* are exactly the items already passed whose construction succeeded, in
\* order; the loop passes every item; the process exits with status 1 exactly
\* when it started no server.
C16_ListenerIndependence ==
    main.st # "idle" =>
        /\ \A k \in 1..Len(main.settings) :
              (\E j \in 1..Len(main.servers) : main.servers[j] = k)
                 <=> (k < main.i /\ main.settings[k])
        /\ \A j \in 1..Len(main.servers) - 1 : main.servers[j] < main.servers[j + 1]
        /\ main.st # "loop" => main.i = Len(main.settings) + 1
        /\ main.st = "serving" => main.servers # <<>>
        /\ main.st = "exited" => (main.status = 1 <=> main.servers = <<>>)
        /\ main.st # "exited" => main.status = -1

\* The relay between two that failed to construct is serving.
C16_Witness ==
    /\ main.st = "serving"
    /\ main.settings = <<FALSE, TRUE, FALSE>>
    /\ main.servers = <<2>>

\* C20. For a forwarded chunk (L >= 1) the lower bound handed to send_range
\* does not exceed the upper bound.
C20_RangeWellFormed ==
    (pad.st \in {"sent", "rejected"} /\ pad.len >= 1) =>
        pad.range[1] <= pad.range[2]

----------------------------------------------------------------------------
\* C14: within one direction, at every point of a flow's execution, the
\* chunks written to the destination Endpoint are, unmodified and in order,
\* a prefix of the non-empty chunks read from the source Endpoint, and at
\* most one chunk has been read but not written: the chunk in flight, or the
\* one whose write failed.  It holds with and without padding, whatever the
\* other flow has done.
C14_OrderPreserved ==
    \A f \in Flows :
        /\ \A i \in 1..Len(rd[f]) : rd[f][i] >= 1
        /\ Len(wr[f]) <= Len(rd[f])
        /\ \A i \in 1..Len(wr[f]) : wr[f][i].len = rd[f][i]
        /\ Len(rd[f]) - Len(wr[f]) <= 1
        /\ Len(rd[f]) - Len(wr[f]) = 1
              => \/ pc[f] = "send" /\ data[f] = rd[f][Len(rd[f])]
                 \/ failure[f] = "write"
        /\ pc[f] = "send" => Len(rd[f]) - Len(wr[f]) = 1

\* Both flows have relayed two chunks of different content, one flow with
\* padding and one without.
C14_Witness ==
    /\ UsePadding("handle") /\ ~UsePadding("run")
    /\ rd["handle"] = <<1, 2>> /\ rd["run"] = <<2, 1>>
    /\ \A f \in Flows :
          Len(wr[f]) = 2 /\ \A i \in 1..2 : wr[f][i].len = rd[f][i]

\* C15: a failed read of the source ends the flow's loop with ReaderError, a
\* failed write to the destination ends it with WriterError, never the other
\* way round, and no I/O failure ends the loop with an error of neither kind.
C15_ErrorTaxonomy ==
    \A f \in Flows :
        /\ failure[f] = "read"
              <=> /\ outcome[f] = "ReaderError"
                  /\ LastLoopCall(f) = <<Src(f), "recv">>
        /\ failure[f] = "write"
              <=> /\ outcome[f] = "WriterError"
                  /\ LastLoopCall(f)[1] = Dst(f)
                  /\ LastLoopCall(f)[2] \in {"send", "send_range"}
        /\ failure[f] = "none" <=> outcome[f] \in {"none", "EOF"}

\* The inline flow's write failed and the dedicated flow's read failed.
C15_Witness ==
    /\ failure["handle"] = "write" /\ outcome["handle"] = "WriterError"
    /\ failure["run"] = "read" /\ outcome["run"] = "ReaderError"

\* C17: the near-to-far flow writes with send_range, under
\* padding_range_with_server, exactly when use_length_hiding_with_server is
\* set, and the far-to-near flow exactly when use_length_hiding_with_client
\* is set, under padding_range_with_client; otherwise each chunk is written
\* verbatim with send.
C17_PaddingPerDirection ==
    LET Flag(f) == IF f = "handle" THEN config.use_length_hiding_with_server
                   ELSE config.use_length_hiding_with_client
        Range(f) == IF f = "handle" THEN config.padding_range_with_server
                    ELSE config.padding_range_with_client
    IN  \A f \in Flows :
            /\ Did(f, Dst(f), "send_range") => Flag(f)
            /\ Did(f, Dst(f), "send") => ~Flag(f)
            /\ \A i \in 1..Len(wr[f]) :
                  /\ wr[f][i].padded <=> Flag(f)
                  /\ wr[f][i].padded
                        => /\ wr[f][i].range[1] = Max(Range(f)[1], 1 - rd[f][i])
                           /\ wr[f][i].range[2] = Range(f)[2]
                  /\ ~wr[f][i].padded => wr[f][i].range = <<0, 0>>

\* The two directions differ in flag and range, and both have written.
C17_Witness ==
    /\ config.use_length_hiding_with_server
    /\ ~config.use_length_hiding_with_client
    /\ config.padding_range_with_server # config.padding_range_with_client
    /\ Did("handle", "remote", "send_range")
    /\ Did("run", "session", "send")
    /\ Len(wr["handle"]) >= 1 /\ Len(wr["run"]) >= 1

\* C18: once either flow of an established Connection has ended, whether by
\* end of stream, failed read or failed write, the other flow eventually ends
\* and both Endpoints are eventually closed, when every call but a read of
\* an open Endpoint returns or raises, and a read or write of an Endpoint
\* the other flow has closed raises.
C18_TeardownPropagates ==
    (RunStarted /\ (HandleEnded \/ RunEnded))
        ~> (HandleEnded /\ RunEnded /\ closed["session"] /\ closed["remote"])

\* The inline flow ended at end of stream and closed the far Endpoint; the
\* dedicated flow's read of it then failed, and it closed the near Endpoint.
C18_Witness ==
    /\ HandleEnded /\ RunEnded
    /\ outcome["handle"] = "EOF" /\ outcome["run"] = "ReaderError"
    /\ rd["run"] = <<>>
    /\ closed["session"] /\ closed["remote"]

\* C19: in every interleaving of the two flows, no recv, send, send_range,
\* bye, shutdown or close is issued on an Endpoint after close has been
\* called on it.
C19_NoUseAfterClose ==
    [][\A f \in Flows :
          Len(log'[f]) > Len(log[f])
             => LET call == log'[f][Len(log'[f])]
                IN  call[1] \in Endpoints => ~closed[call[1]]]_vars

====
